---- MODULE Spec2Model ----
(***************************************************************************)
(* The frame loop of the tearable-cloth program (src/main.go, func loop)   *)
(* together with the two collaborators it drives: the Mouse (pointer       *)
(* interaction state) and the Cloth (particles and constraints).           *)
(*                                                                         *)
(* The loop is translated from src/main.go.  Mouse and Cloth are defined   *)
(* in other files of the package; their operations are modelled from the   *)
(* design specification (sections 3 and 4) and are marked as such.         *)
(*                                                                         *)
(* Spec       the frame loop, run on a cloth of one pinned particle so     *)
(*            that the loop's own state is what is explored.               *)
(* SpecCloth  the cloth engine, run on a small grid and driven directly    *)
(*            with interaction states the loop can hand to Update.         *)
(***************************************************************************)
EXTENDS Integers, Sequences, FiniteSets, TLC

VARIABLES
    pc,          \* "wait": blocked on w.Events(); "events": inside the range loop; "done": loop returned
    exit,        \* how the process ended: "running", "exit0" (os.Exit(0)) or "fatal" (log.Fatal)
    closing,     \* w.Perform(system.ActionClose) has been called
    now,         \* the wall clock read by time.Now()
    initTime,    \* loop local initTime
    deltaTime,   \* loop local deltaTime
    scrollY,     \* loop local scrollY
    isDragging,  \* loop local isDragging
    mouse,       \* *Mouse
    cloth,       \* *Cloth
    viewport,    \* the window's size, which every frame reports as gtx.Constraints.Max
    held,        \* host side: the pointer buttons physically down after the last delivered event
    pending,     \* events of gtx.Queue.Events(w) the range loop has still to handle
    age,         \* SpecCloth: Update calls made on the cloth since it was last rebuilt
    hist         \* observations of the run (calls made, last event), read by the properties only

vars == <<pc, exit, closing, now, initTime, deltaTime, scrollY, isDragging,
          mouse, cloth, viewport, held, pending, age, hist>>

---------------------------------------------------------------------------
(* Bounds of the model *)

MaxQueue == 2   \* events delivered to one frame
MaxTime == 1    \* clock ticks
MaxForce == 2   \* the force accumulator saturates here
MaxAge == 3     \* Update calls on one cloth between two resets, SpecCloth
GridCols == 2   \* particles per row, SpecCloth
GridRows == 2   \* rows of particles, SpecCloth

(* Program constants *)

windowWidth == 940
windowHeight == 580
maxScrollY == 200
spacing == 8
clothW == (windowWidth * 13) \div 10
clothH == (windowHeight * 4) \div 10

Min(a, b) == IF a < b THEN a ELSE b
Max(a, b) == IF a > b THEN a ELSE b

---------------------------------------------------------------------------
(* Mouse: the pointer interaction state (spec.md section 3, "Pointer/      *)
(* Interaction State"), with the setters the loop calls.                  *)

NewMouse ==
    [x |-> 0, y |-> 0,
     isLeftButton |-> FALSE, isRightButton |-> FALSE,
     isDragging |-> FALSE, ctrlDown |-> FALSE,
     force |-> 0, scrollY |-> 0, maxScrollY |-> maxScrollY]

getLeftButton(m) == m.isLeftButton
setLeftButton(m) == [m EXCEPT !.isLeftButton = TRUE]
releaseLeftButton(m) == [m EXCEPT !.isLeftButton = FALSE]
setRightButton(m) == [m EXCEPT !.isRightButton = TRUE]
releaseRightButton(m) == [m EXCEPT !.isRightButton = FALSE]
setDragging(m, b) == [m EXCEPT !.isDragging = b]
setCtrlDown(m, b) == [m EXCEPT !.ctrlDown = b]
setScrollY(m, v) == [m EXCEPT !.scrollY = v]
getCurrentPosition(ev) == ev.Position
updatePosition(m, x, y) == [m EXCEPT !.x = x, !.y = y]
\* the accumulator grows with the hold duration handed in; it saturates at MaxForce
increaseForce(m, dt) == [m EXCEPT !.force = Min(m.force + dt, MaxForce)]
resetForce(m) == [m EXCEPT !.force = 0]

---------------------------------------------------------------------------
(* Cloth: particle store, constraint set, integrator, solver and           *)
(* controller (spec.md sections 3, 4.1-4.4 and 4.6).  Positions are        *)
(* integers (pixels); the arithmetic of the engine is carried out in       *)
(* integers with truncation.                                               *)

dampingPct == 99      \* damping 0.99, in percent
gravityStep == 2      \* gravity * dt^2 of one step, in pixels
solverPasses == 3     \* relaxation passes per update
tearFactor == 2       \* a constraint tears beyond restLength * tearFactor

\* the integer part of the square root
ISqrt(n) == CHOOSE r \in 0..n : r * r <= n /\ (r + 1) * (r + 1) > n
\* integer division truncating toward zero
Quot(a, b) == IF a >= 0 THEN a \div b ELSE -((-a) \div b)
Dist(ax, ay, bx, by) == ISqrt((bx - ax) * (bx - ax) + (by - ay) * (by - ay))

NewCloth(gw, gh, sp) ==
    [gridWidth |-> gw, gridHeight |-> gh, spacing |-> sp,
     isInitialized |-> FALSE, startX |-> 0, startY |-> 0,
     particles |-> <<>>, constraints |-> <<>>]

\* the particle of grid index i (row * gridWidth + col), placed from the origin
GridParticle(c, i, sx, sy) ==
    LET row == i \div c.gridWidth
        col == i % c.gridWidth
        x == sx + col * c.spacing
        y == sy + row * c.spacing
    IN  [x |-> x, y |-> y, px |-> x, py |-> y, pinned |-> (row = 0)]

\* one constraint per axis-adjacent pair: slot 2i is particle i with its right
\* neighbour, slot 2i+1 particle i with the one below; base is the store index of
\* grid index 0
BuildConstraints(c, base) ==
    LET n == c.gridWidth * c.gridHeight
        slot(k) ==
            LET i == k \div 2
                horiz == (k % 2 = 0)
                row == i \div c.gridWidth
                col == i % c.gridWidth
            IN  [p1 |-> base + i + 1,
                 p2 |-> base + (IF horiz THEN i + 1 ELSE i + c.gridWidth) + 1,
                 restLength |-> c.spacing,
                 active |-> TRUE,
                 valid |-> IF horiz THEN col + 1 < c.gridWidth ELSE row + 1 < c.gridHeight]
        all == [k \in 1..(2 * n) |-> slot(k - 1)]
        kept == SelectSeq(all, LAMBDA s : s.valid)
    IN  [k \in 1..Len(kept) |->
            [p1 |-> kept[k].p1, p2 |-> kept[k].p2,
             restLength |-> kept[k].restLength, active |-> kept[k].active]]

\* init(startX, startY): builds the grid from the origin, pins row 0, builds the
\* constraints, marks the cloth initialized
ClothInit(c, sx, sy) ==
    LET n == c.gridWidth * c.gridHeight
        base == Len(c.particles)
    IN  [c EXCEPT !.particles = c.particles \o [i \in 1..n |-> GridParticle(c, i - 1, sx, sy)],
                  !.constraints = c.constraints \o BuildConstraints(c, base),
                  !.startX = sx, !.startY = sy,
                  !.isInitialized = TRUE]

\* variant: reset keeps the old constraints
DiscardParticlesOnly(c) ==
    [c EXCEPT !.particles = <<>>, !.isInitialized = FALSE]

\* the first half of reset: every particle and constraint is discarded
Discard(c) ==
    [c EXCEPT !.particles = <<>>, !.constraints = <<>>, !.isInitialized = FALSE]

\* reset(startX, startY): discards all state and re-runs init
ClothReset(c, sx, sy) == ClothInit(Discard(c), sx, sy)

\* Integrator step of one particle: damped Verlet with gravity; pinned particles
\* are skipped
IntegrateParticle(p) ==
    IF p.pinned THEN p
    ELSE LET vx == Quot((p.x - p.px) * dampingPct, 100)
             vy == Quot((p.y - p.py) * dampingPct, 100)
         IN  [p EXCEPT !.px = p.x, !.py = p.y,
                       !.x = p.x + vx, !.y = p.y + vy + gravityStep]

Integrate(c) ==
    [c EXCEPT !.particles = [i \in 1..Len(c.particles) |-> IntegrateParticle(c.particles[i])]]

\* the interaction modes of section 4.5, selected from the mouse flags
Mode(m) ==
    IF ~m.isLeftButton THEN "Idle"
    ELSE IF m.ctrlDown THEN "Tear"
    ELSE "Drag"

InRadius(p, m) ==
    (p.x - m.x) * (p.x - m.x) + (p.y - m.y) * (p.y - m.y) <= m.scrollY * m.scrollY

\* variant: the drag also moves pinned particles
DragParticleIgnoringPin(p, m) ==
    IF ~InRadius(p, m) \/ m.scrollY = 0 THEN p
    ELSE LET d == Dist(p.x, p.y, m.x, m.y)
             w == m.scrollY - d
         IN  [p EXCEPT !.x = p.x + Quot((m.x - p.x) * w, m.scrollY),
                       !.y = p.y + Quot((m.y - p.y) * w, m.scrollY) + m.force]

\* Drag and force-push of one particle: pulled toward the pointer, the closer the
\* further, then pushed down by the accumulated force; pinned particles excluded
DragParticle(p, m) ==
    IF p.pinned \/ ~InRadius(p, m) \/ m.scrollY = 0 THEN p
    ELSE LET d == Dist(p.x, p.y, m.x, m.y)
             w == m.scrollY - d
         IN  [p EXCEPT !.x = p.x + Quot((m.x - p.x) * w, m.scrollY),
                       !.y = p.y + Quot((m.y - p.y) * w, m.scrollY) + m.force]

\* Tear: a constraint with an endpoint inside the radius is deactivated outright
TearConstraint(c, k, m) ==
    LET con == c.constraints[k]
    IN  IF con.active /\ (InRadius(c.particles[con.p1], m) \/ InRadius(c.particles[con.p2], m))
        THEN [con EXCEPT !.active = FALSE]
        ELSE con

Interact(c, m) ==
    CASE Mode(m) = "Drag" ->
            [c EXCEPT !.particles = [i \in 1..Len(c.particles) |-> DragParticle(c.particles[i], m)]]
      [] Mode(m) = "Tear" ->
            [c EXCEPT !.constraints = [k \in 1..Len(c.constraints) |-> TearConstraint(c, k, m)]]
      [] OTHER -> c

\* variant: the solver also works on torn constraints
SolveConstraintUnguarded(c, k) ==
    LET con == c.constraints[k]
        a == c.particles[con.p1]
        b == c.particles[con.p2]
        d == Dist(a.x, a.y, b.x, b.y)
        torn == d > con.restLength * tearFactor
    IN  [c EXCEPT !.constraints = [@ EXCEPT ![k] = [con EXCEPT !.active = ~torn]]]

\* One constraint of one solver pass: both endpoints move half the deviation, a
\* pinned endpoint does not move and the free one absorbs the whole correction, a
\* zero-length vector is skipped; the distance is then measured again and the
\* constraint deactivated beyond the tear threshold
SolveConstraint(c, k) ==
    LET con == c.constraints[k]
        a == c.particles[con.p1]
        b == c.particles[con.p2]
        dx == b.x - a.x
        dy == b.y - a.y
        d == Dist(a.x, a.y, b.x, b.y)
        dev == d - con.restLength
        sa == IF a.pinned THEN 0 ELSE IF b.pinned THEN 2 ELSE 1
        sb == IF b.pinned THEN 0 ELSE IF a.pinned THEN 2 ELSE 1
        a2 == IF d = 0 THEN a
              ELSE [a EXCEPT !.x = a.x + Quot(dx * dev * sa, 2 * d),
                             !.y = a.y + Quot(dy * dev * sa, 2 * d)]
        b2 == IF d = 0 THEN b
              ELSE [b EXCEPT !.x = b.x - Quot(dx * dev * sb, 2 * d),
                             !.y = b.y - Quot(dy * dev * sb, 2 * d)]
        d2 == Dist(a2.x, a2.y, b2.x, b2.y)
        torn == d2 > con.restLength * tearFactor
    IN  IF ~con.active THEN c
        ELSE [c EXCEPT !.particles = [[@ EXCEPT ![con.p1] = a2] EXCEPT ![con.p2] = b2],
                       !.constraints = [@ EXCEPT ![k] = [con EXCEPT !.active = ~torn]]]

RECURSIVE RelaxFrom(_, _)
RelaxFrom(c, k) ==
    IF k > Len(c.constraints) THEN c ELSE RelaxFrom(SolveConstraint(c, k), k + 1)

RECURSIVE Relax(_, _)
Relax(c, passes) == IF passes = 0 THEN c ELSE Relax(RelaxFrom(c, 1), passes - 1)

\* update(dt): integrate, apply the interaction of the current mode, solve
ClothUpdate(c, m) == Relax(Interact(Integrate(c), m), solverPasses)

---------------------------------------------------------------------------
(* The host: the events the windowing layer can deliver.  A pointer event  *)
(* carries the buttons down after it (Buttons), the modifiers held and the *)
(* pointer position; a key event a key name and a state.                   *)

Buttons == {"Primary", "Secondary"}
Mods == {{}, {"Ctrl"}}
Points == {<<0, 0>>, <<-141, 124>>}
ScrollDeltas == {-200, 300}
KeyNames == {"Space", "Escape", "Alt"}
KeyStates == {"Press", "Release"}
Viewports == {<<940, 580>>, <<1222, 600>>}
Errors == {"nil", "err"}

NoEvent == [kind |-> "none"]
PointerEvent(t, b, m, p, s) ==
    [kind |-> "pointer", Type |-> t, Buttons |-> b, Modifiers |-> m, Position |-> p, Scroll |-> s]
KeyEvent(n, st) == [kind |-> "key", Name |-> n, State |-> st]
DestroyEvent(err) == [kind |-> "destroy", Err |-> err]

IsPointer(ev) == ev.kind = "pointer"
\* what the properties read of a handled event: of a pointer event its type,
\* scroll amount and control modifier, and the position of a Press, Drag or Move
Digest(ev) ==
    IF ev.kind = "pointer"
    THEN [kind |-> "pointer", Type |-> ev.Type, Scroll |-> ev.Scroll,
          Ctrl |-> ("Ctrl" \in ev.Modifiers),
          Position |-> IF ev.Type \in {"Press", "Drag", "Move"} THEN ev.Position ELSE <<>>]
    ELSE ev
IsKey(ev) == ev.kind = "key"

\* the events the host can deliver next while the buttons h are down: a press of a
\* button that is up, a release of one that is down, a motion (a Drag while a
\* button is down), a scroll
HostPointerEvents(h) ==
    {PointerEvent("Press", h \cup {b}, m, p, 0) : b \in Buttons \ h, m \in Mods, p \in Points}
    \cup {PointerEvent("Release", h \ {b}, m, p, 0) : b \in h, m \in Mods, p \in Points}
    \cup {PointerEvent("Move", h, m, p, 0) : m \in Mods, p \in Points}
    \cup {PointerEvent("Drag", hh, m, p, 0) : hh \in {h} \ {{}}, m \in Mods, p \in Points}
    \cup {PointerEvent("Scroll", h, m, p, d) : m \in Mods, p \in Points, d \in ScrollDeltas}

HostKeyEvents == {KeyEvent(n, st) : n \in KeyNames, st \in KeyStates}

---------------------------------------------------------------------------
(* The frame loop (src/main.go, func loop).  L is the record of the state  *)
(* the pointer switch works on: the mouse and the locals isDragging,       *)
(* scrollY and initTime.                                                   *)

Locals(m, d, s, t) == [mouse |-> m, isDragging |-> d, scrollY |-> s, initTime |-> t]

\* startX := width/2 - clothW/2; startY := int(float64(height) * 0.2), for the
\* guarded Init of a frame
InitOrigin(vp) == <<vp[1] \div 2 - clothW \div 2, (vp[2] * 2) \div 10>>

\* the same two lines in the Space branch
ResetOrigin(vp) == <<vp[1] \div 2 - clothW \div 2, (vp[2] * 2) \div 10>>

\* variant: the guard of Init is dropped
NeedsInitAlways(c) == TRUE

\* if !cloth.isInitialized
NeedsInit(c) == ~c.isInitialized

\* if !cloth.isInitialized { ... cloth.Init(startX, startY) }
GuardedInit(c, vp) ==
    IF NeedsInit(c) THEN ClothInit(c, InitOrigin(vp)[1], InitOrigin(vp)[2]) ELSE c

\* variant: the force grows in every frame
ForceStepUnguarded(m, dt, t, t0) ==
    [mouse |-> increaseForce(m, t - t0), deltaTime |-> t - t0]

\* if mouse.getLeftButton() { deltaTime = time.Now().Sub(initTime); mouse.increaseForce(...) }
ForceStep(m, dt, t, t0) ==
    IF getLeftButton(m)
    THEN [mouse |-> increaseForce(m, t - t0), deltaTime |-> t - t0]
    ELSE [mouse |-> m, deltaTime |-> dt]

\* variant: the range loop stops one event short
RangeDoneEarly(n) == n <= 1

\* the range loop over gtx.Queue.Events(w) is over once no event is left
RangeDone(n) == n = 0

\* variant: the scroll value is not clamped from above
ScrollCaseNoUpperClamp(L, ev) ==
    LET y0 == L.scrollY + ev.Scroll
        y == IF y0 < 0 THEN 0 ELSE y0
    IN  [L EXCEPT !.scrollY = y, !.mouse = setScrollY(@, y)]

\* case pointer.Scroll
ScrollCase(L, ev) ==
    LET y0 == L.scrollY + ev.Scroll
        y == IF y0 < 0 THEN 0
             ELSE IF y0 > L.mouse.maxScrollY THEN L.mouse.maxScrollY
             ELSE y0
    IN  [L EXCEPT !.scrollY = y, !.mouse = setScrollY(@, y)]

\* case pointer.Move
MoveCase(L, ev) ==
    LET pos == getCurrentPosition(ev)
    IN  [L EXCEPT !.mouse = updatePosition(@, pos[1], pos[2])]

\* variant: a press sets the control flag whatever the modifiers
PressCaseAnyModifier(L, ev, t) ==
    [L EXCEPT !.mouse = setLeftButton(setCtrlDown(L.mouse, TRUE)), !.initTime = t]

\* case pointer.Press; t is time.Now()
PressCase(L, ev, t) ==
    LET m1 == IF ev.Modifiers = {"Ctrl"} THEN setCtrlDown(L.mouse, TRUE) ELSE L.mouse
    IN  [L EXCEPT !.mouse = setLeftButton(m1), !.initTime = t]

\* variant: a release leaves the control flag as it is
ReleaseCaseKeepsCtrl(L, ev) ==
    LET m1 == resetForce(L.mouse)
        m2 == releaseLeftButton(m1)
        m3 == releaseRightButton(m2)
        m4 == setDragging(m3, FALSE)
    IN  [L EXCEPT !.isDragging = FALSE, !.mouse = m4]

\* case pointer.Release
ReleaseCase(L, ev) ==
    LET m1 == resetForce(L.mouse)
        m2 == releaseLeftButton(m1)
        m3 == releaseRightButton(m2)
        m4 == setDragging(m3, FALSE)
        m5 == setCtrlDown(m4, FALSE)
    IN  [L EXCEPT !.isDragging = FALSE, !.mouse = m5]

\* case pointer.Drag
DragCase(L, ev) == [L EXCEPT !.isDragging = TRUE]

\* switch ev.Type
TypeSwitch(L, ev, t) ==
    CASE ev.Type = "Scroll" -> ScrollCase(L, ev)
      [] ev.Type = "Move" -> MoveCase(L, ev)
      [] ev.Type = "Press" -> PressCase(L, ev, t)
      [] ev.Type = "Release" -> ReleaseCase(L, ev)
      [] ev.Type = "Drag" -> DragCase(L, ev)
      [] OTHER -> L

\* variant: the primary case does not set the left-button flag
ButtonsSwitchNoLeft(L, ev) ==
    LET pos == getCurrentPosition(ev)
    IN  CASE ev.Buttons = {"Primary"} ->
                [L EXCEPT !.mouse = setDragging(updatePosition(@, pos[1], pos[2]),
                                                L.isDragging)]
          [] ev.Buttons = {"Secondary"} ->
                [L EXCEPT !.mouse = updatePosition(setRightButton(@), pos[1], pos[2])]
          [] OTHER -> L

\* switch ev.Buttons
ButtonsSwitch(L, ev) ==
    LET pos == getCurrentPosition(ev)
    IN  CASE ev.Buttons = {"Primary"} ->
                [L EXCEPT !.mouse = setDragging(
                                      updatePosition(setLeftButton(@), pos[1], pos[2]),
                                      L.isDragging)]
          [] ev.Buttons = {"Secondary"} ->
                [L EXCEPT !.mouse = updatePosition(setRightButton(@), pos[1], pos[2])]
          [] OTHER -> L

\* case pointer.Event: the two switches in sequence
HandlePointer(L, ev, t) == ButtonsSwitch(TypeSwitch(L, ev, t), ev)

\* variant: Space resets on a release too
SpaceResetsAnyState(ev) == ev.Name = "Space"

\* the key branch: a pressed Space resets the cloth
SpaceResets(ev) == ev.State = "Press" /\ ev.Name = "Space"
HandleKeyCloth(c, ev, vp) ==
    IF SpaceResets(ev) THEN ClothReset(c, ResetOrigin(vp)[1], ResetOrigin(vp)[2]) ELSE c

\* if e.Name == key.NameEscape { w.Perform(system.ActionClose) }
EscapeCloses(ev) == ev.Name = "Escape"

\* variant: a host event is taken wherever the loop is
AwaitingEventAnywhere(p) == p # "done"

\* case e := <-w.Events(): the loop takes a host event only where it blocks on
\* the channel, at the top of the for loop
AwaitingEvent(p) == p = "wait"

\* variant: the process always ends with exit code 0
ExitOfAlwaysZero(err) == "exit0"

\* main: if err := loop(w); err != nil { log.Fatal(err) }; os.Exit(0)
ExitOf(err) == IF err # "nil" THEN "fatal" ELSE "exit0"

---------------------------------------------------------------------------
(* State machine *)

Sat(n) == Min(n + 1, 2)

NewHist ==
    [started |-> FALSE,       \* a frame has begun
     nUpdates |-> 0,          \* cloth.Update calls of the current frame
     initCalls |-> 0,         \* cloth.Init calls made by the loop, saturating at 2
     initArgs |-> <<>>,       \* arguments of the cloth.Init call of the last step
     resetCalls |-> 0,        \* cloth.Reset calls made by the last step
     resetArgs |-> <<>>,      \* arguments of that call
     lastEv |-> NoEvent,      \* the event the last step handled
     closeCalls |-> 0,        \* w.Perform(system.ActionClose) calls made by the last step
     ctrlLatched |-> FALSE,   \* a Press with modifiers Ctrl was handled since the last Release
     forcedInHold |-> FALSE,  \* increaseForce was called during the current hold of the primary button
     rightOnly |-> FALSE,     \* buttons are down, and since none was, only the secondary has been
     tornBefore |-> FALSE]    \* the cloth the last Update or Reset was called on had a torn constraint

\* a step that handles no event and calls no Reset
Quiet(h) ==
    [h EXCEPT !.resetCalls = 0, !.resetArgs = <<>>, !.initArgs = <<>>, !.lastEv = NoEvent,
              !.closeCalls = 0, !.tornBefore = FALSE]

TornAny(c) == \E k \in DOMAIN c.constraints : ~c.constraints[k].active

InitCommon ==
    /\ pc = "wait"
    /\ exit = "running"
    /\ closing = FALSE
    /\ now = 0
    /\ initTime = 0
    /\ deltaTime = 0
    /\ scrollY = 0
    /\ isDragging = FALSE
    /\ mouse = NewMouse
    /\ held = {}
    /\ pending = 0
    /\ age = 0
    /\ hist = NewHist

\* cloth := NewCloth(clothW, clothH, 8, 0.99, col), scaled to a single particle;
\* the window is 1222 x 600 pixels, a size other than the one it is created
\* with, and keeps it
Init ==
    /\ InitCommon
    /\ viewport = <<1222, 600>>
    /\ cloth = NewCloth(1, 1, spacing)

\* the clock advances
Tick ==
    /\ pc # "done"
    /\ now < MaxTime
    /\ now' = now + 1
    /\ hist' = Quiet(hist)
    /\ UNCHANGED <<pc, exit, closing, initTime, deltaTime, scrollY, isDragging,
                   mouse, cloth, viewport, held, pending, age>>

\* case system.FrameEvent, up to the range loop: the guarded Init, the force
\* step, and the frame's queue of n events
FrameBegin(n) ==
    /\ AwaitingEvent(pc)
    /\ pc' = "events"
    /\ cloth' = GuardedInit(cloth, viewport)
    /\ LET f == ForceStep(mouse, deltaTime, now, initTime)
       IN  /\ mouse' = f.mouse
           /\ deltaTime' = f.deltaTime
    /\ pending' = n
    /\ hist' = [Quiet(hist) EXCEPT
                  !.started = TRUE,
                  !.nUpdates = 0,
                  !.initCalls = IF NeedsInit(cloth) THEN Sat(@) ELSE @,
                  !.initArgs = IF NeedsInit(cloth) THEN InitOrigin(viewport) ELSE <<>>,
                  !.forcedInHold = @ \/ (getLeftButton(mouse) /\ "Primary" \in held)]
    /\ UNCHANGED <<exit, closing, now, initTime, scrollY, isDragging, viewport, held, age>>

\* one iteration of the range loop on a pointer event
HandlePointerEvent(ev) ==
    /\ pc = "events"
    /\ ~RangeDone(pending)
    /\ IsPointer(ev)
    /\ LET L == HandlePointer(Locals(mouse, isDragging, scrollY, initTime), ev, now)
       IN  /\ mouse' = L.mouse
           /\ isDragging' = L.isDragging
           /\ scrollY' = L.scrollY
           /\ initTime' = L.initTime
    /\ held' = ev.Buttons
    /\ pending' = pending - 1
    /\ hist' = [hist EXCEPT
                  !.resetCalls = 0,
                  !.resetArgs = <<>>,
                  !.initArgs = <<>>,
                  !.tornBefore = FALSE,
                  !.closeCalls = 0,
                  !.lastEv = Digest(ev),
                  !.ctrlLatched = IF ev.Type = "Release" THEN FALSE
                                  ELSE IF ev.Type = "Press" /\ ev.Modifiers = {"Ctrl"} THEN TRUE
                                  ELSE @,
                  !.forcedInHold = @ /\ "Primary" \in held /\ "Primary" \in ev.Buttons,
                  !.rightOnly = (ev.Buttons = {"Secondary"}) /\ (held = {} \/ @)]
    /\ UNCHANGED <<pc, exit, closing, now, deltaTime, cloth, viewport, age>>

\* one iteration of the range loop on a key event
HandleKeyEvent(ev) ==
    /\ pc = "events"
    /\ ~RangeDone(pending)
    /\ IsKey(ev)
    /\ cloth' = HandleKeyCloth(cloth, ev, viewport)
    /\ closing' = (closing \/ EscapeCloses(ev))
    /\ pending' = pending - 1
    /\ hist' = [hist EXCEPT
                  !.resetCalls = IF SpaceResets(ev) THEN 1 ELSE 0,
                  !.resetArgs = IF SpaceResets(ev) THEN ResetOrigin(viewport) ELSE <<>>,
                  !.initArgs = <<>>,
                  !.tornBefore = SpaceResets(ev) /\ TornAny(cloth),
                  !.closeCalls = IF EscapeCloses(ev) THEN 1 ELSE 0,
                  !.lastEv = ev]
    /\ UNCHANGED <<pc, exit, now, initTime, deltaTime, scrollY, isDragging, mouse,
                   viewport, held, age>>

\* the rest of the frame once the range loop is over: cloth.Update, e.Frame
FrameEnd ==
    /\ pc = "events"
    /\ RangeDone(pending)
    /\ cloth' = ClothUpdate(cloth, mouse)
    /\ pc' = "wait"
    /\ hist' = [Quiet(hist) EXCEPT !.nUpdates = Sat(@), !.tornBefore = TornAny(cloth)]
    /\ UNCHANGED <<exit, closing, now, initTime, deltaTime, scrollY, isDragging,
                   mouse, viewport, held, pending, age>>

\* case system.DestroyEvent: return e.Err; main ends the process
Destroy(err) ==
    /\ AwaitingEvent(pc)
    /\ pc' = "done"
    /\ exit' = ExitOf(err)
    /\ hist' = [Quiet(hist) EXCEPT !.lastEv = DestroyEvent(err)]
    /\ UNCHANGED <<closing, now, initTime, deltaTime, scrollY, isDragging, mouse,
                   cloth, viewport, held, pending, age>>

Next ==
    \/ Tick
    \/ \E n \in 0..MaxQueue : FrameBegin(n)
    \/ \E ev \in HostPointerEvents(held) : HandlePointerEvent(ev)
    \/ \E ev \in HostKeyEvents : HandleKeyEvent(ev)
    \/ FrameEnd
    \/ \E err \in Errors : Destroy(err)

Spec == Init /\ [][Next]_vars

\* one iteration of the range loop, whatever the event
RangeStep ==
    \/ \E ev \in HostPointerEvents(held) : HandlePointerEvent(ev)
    \/ \E ev \in HostKeyEvents : HandleKeyEvent(ev)

\* the host's answer to w.Perform(system.ActionClose): a DestroyEvent
CloseDelivered == closing /\ \E err \in Errors : Destroy(err)

\* The loop with its progress, in a window of the size it is created with
\* (app.Size): the goroutine keeps running, so a started range loop handles its
\* events and the frame reaches Update; the host delivers a DestroyEvent once
\* the close action has been performed.
InitLive ==
    /\ InitCommon
    /\ viewport = <<windowWidth, windowHeight>>
    /\ cloth = NewCloth(1, 1, spacing)

SpecLive ==
    /\ InitLive
    /\ [][Next]_vars
    /\ WF_vars(RangeStep)
    /\ WF_vars(FrameEnd)
    /\ SF_vars(CloseDelivered)

---------------------------------------------------------------------------
(* The cloth engine on its own: the three calls the loop makes on the      *)
(* cloth (the guarded Init, Update, the Reset of a pressed Space), on a    *)
(* grid of GridCols x GridRows particles, with the interaction state       *)
(* handed to Update drawn from MouseInputs.                                *)

ClothPoints == {<<-141, 124>>, <<4, 130>>}
ClothRadii == {6, 200}
ClothForces == {0, 2}

MouseInputs ==
    {NewMouse}
    \cup {[NewMouse EXCEPT !.x = p[1], !.y = p[2], !.scrollY = r, !.isLeftButton = TRUE,
                           !.isDragging = TRUE, !.force = f]
            : p \in ClothPoints, r \in ClothRadii, f \in ClothForces}
    \cup {[NewMouse EXCEPT !.x = p[1], !.y = p[2], !.scrollY = r, !.isLeftButton = TRUE,
                           !.ctrlDown = TRUE]
            : p \in ClothPoints, r \in ClothRadii}

InitCloth ==
    /\ InitCommon
    /\ viewport \in Viewports
    /\ cloth = NewCloth(GridCols, GridRows, spacing)

\* the first frame's guarded Init, the window being of size vp
ClothInitStep(vp) ==
    /\ NeedsInit(cloth)
    /\ cloth' = GuardedInit(cloth, vp)
    /\ viewport' = vp
    /\ age' = 0
    /\ hist' = [Quiet(hist) EXCEPT !.started = TRUE, !.initCalls = Sat(@),
                                   !.initArgs = InitOrigin(vp)]
    /\ UNCHANGED <<pc, exit, closing, now, initTime, deltaTime, scrollY, isDragging,
                   mouse, held, pending>>

\* cloth.Update(gtx, mouse, 0.015) with the interaction state m
ClothUpdateStep(m) ==
    /\ ~NeedsInit(cloth)
    /\ age < MaxAge
    /\ mouse' = m
    /\ cloth' = ClothUpdate(cloth, m)
    /\ age' = age + 1
    /\ hist' = [Quiet(hist) EXCEPT !.nUpdates = Sat(@), !.tornBefore = TornAny(cloth)]
    /\ UNCHANGED <<pc, exit, closing, now, initTime, deltaTime, scrollY, isDragging,
                   viewport, held, pending>>

\* a pressed Space, the window being of size vp by then
ClothResetStep(vp) ==
    /\ ~NeedsInit(cloth)
    /\ viewport' = vp
    /\ cloth' = HandleKeyCloth(cloth, KeyEvent("Space", "Press"), vp)
    /\ age' = 0
    /\ hist' = [Quiet(hist) EXCEPT !.resetCalls = 1, !.resetArgs = ResetOrigin(vp),
                                   !.tornBefore = TornAny(cloth),
                                   !.lastEv = KeyEvent("Space", "Press")]
    /\ UNCHANGED <<pc, exit, closing, now, initTime, deltaTime, scrollY, isDragging,
                   mouse, held, pending>>

NextCloth ==
    \/ \E vp \in Viewports : ClothInitStep(vp)
    \/ \E m \in MouseInputs : ClothUpdateStep(m)
    \/ \E vp \in Viewports : ClothResetStep(vp)

SpecCloth == InitCloth /\ [][NextCloth]_vars

---------------------------------------------------------------------------
(* Properties *)

\* the step handles one event of the frame's queue
EventStep == pending' = pending - 1
\* the step is the first part of a frame
BeginStep == pc = "wait" /\ pc' = "events"
\* the step calls cloth.Update and submits the frame
UpdateStep == pc = "events" /\ pc' = "wait"
\* the range loop is over and cloth.Update is the next call
AtUpdate == pc = "events" /\ pending = 0
\* the event handled by the step, as the properties read it
Handled == hist'.lastEv
IsPointerOfType(e, t) == e.kind = "pointer" /\ e.Type = t
\* the origin of a viewport: width/2 - clothW/2, floor(height * 0.2)
ExpectedOrigin(vp) == <<vp[1] \div 2 - 611, vp[2] \div 5>>

\* C1: in every frame cloth.Update is called exactly once, only when every event
\* queued for the frame has been handled, and no event of the frame is handled
\* after it.
C1_EventsBeforeUpdate ==
    [][ /\ UpdateStep => (pending = 0 /\ hist.nUpdates = 0 /\ hist'.nUpdates = 1)
        /\ EventStep => (hist.nUpdates = 0 /\ hist'.nUpdates = 0 /\ pc = "events")
        /\ BeginStep => hist'.nUpdates = 0
        /\ (pc = "wait" /\ hist.started) => hist.nUpdates = 1
      ]_vars

\* C1 witness: a frame's events have been handled and Update is the next call
C1_Witness == AtUpdate /\ hist.lastEv # NoEvent /\ hist.nUpdates = 0

\* C2: the scroll value handed to mouse.setScrollY is always within
\* [0, maxScrollY], a scroll event sets it to clamp(previous + delta, 0,
\* maxScrollY), nothing else changes it, and a scroll never ends the loop.
C2_ScrollClamped ==
    [][ /\ scrollY' \in 0..maxScrollY
        /\ mouse'.scrollY = scrollY'
        /\ IF EventStep /\ IsPointerOfType(Handled, "Scroll")
           THEN /\ scrollY' = Max(0, Min(maxScrollY, scrollY + Handled.Scroll))
                /\ pc' = "events"
                /\ exit' = "running"
           ELSE scrollY' = scrollY
      ]_vars

\* C2 witness: a scroll past the maximum has been clamped to it
C2_Witness ==
    /\ IsPointerOfType(hist.lastEv, "Scroll")
    /\ hist.lastEv.Scroll = 300
    /\ scrollY = maxScrollY
    /\ mouse.scrollY = maxScrollY

\* C3: right after a Release of the primary button is handled, the left-button
\* flag, the drag flag and the control flag are false and the force is 0.
C3_ReleaseClears ==
    [][ (EventStep /\ IsPointerOfType(Handled, "Release")
            /\ "Primary" \in held /\ "Primary" \notin held')
        => (/\ ~mouse'.isLeftButton
            /\ ~mouse'.isDragging
            /\ ~mouse'.ctrlDown
            /\ mouse'.force = 0)
      ]_vars

\* C3 witness: the primary button has just been released while the secondary is
\* still down, so the switch on ev.Buttons has acted after the Release case
C3_Witness ==
    /\ IsPointerOfType(hist.lastEv, "Release")
    /\ held = {"Secondary"}
    /\ mouse.isRightButton
    /\ ~mouse.isLeftButton

\* C4: while the primary button stays down, the duration handed to increaseForce
\* never decreases from one frame to the next and the force never decreases,
\* whatever other pointer events arrive.
C4_ForceGrowsWhileHeld ==
    [][ ("Primary" \in held /\ "Primary" \in held')
        => (/\ (BeginStep /\ hist.forcedInHold) => deltaTime' >= deltaTime
            /\ mouse'.force >= mouse.force)
      ]_vars

\* C5: while only the secondary button is, and has been, down, the left-button
\* flag is false, no force has accumulated and the control flag is untouched.
C5_RightSelectNoForce ==
    hist.rightOnly => (~mouse.isLeftButton /\ mouse.force = 0 /\ ~mouse.ctrlDown)

\* C6 as stated, for an Update reached with the primary button down: the control
\* flag is true iff the most recent pointer event reported the control modifier.
C6_CtrlTracksModifier ==
    (AtUpdate /\ hist.lastEv.kind = "pointer" /\ "Primary" \in held)
    => (mouse.ctrlDown <=> hist.lastEv.Ctrl)

\* C6 amended: at every Update the control flag is true iff a Press whose
\* modifiers equal Ctrl has been handled since the last Release (of any button);
\* the modifiers of other events do not change it.
C6_CtrlLatchedAtPress == AtUpdate => (mouse.ctrlDown <=> hist.ctrlLatched)

\* C6 witness: Update is about to run with the control flag set although the
\* last pointer event reported no control modifier
C6_Witness ==
    /\ AtUpdate
    /\ mouse.ctrlDown
    /\ hist.lastEv.kind = "pointer"
    /\ ~hist.lastEv.Ctrl

\* C7: the loop calls cloth.Init once, in the first frame and before that
\* frame's Update, never again, and Update is only called on an initialized
\* cloth, also in a frame that called Reset.
C7_InitGuarded ==
    [][ /\ hist'.initCalls <= 1
        /\ hist'.started => hist'.initCalls = 1
        /\ hist'.initArgs # <<>> => (BeginStep /\ ~hist.started)
        /\ UpdateStep => cloth.isInitialized
      ]_vars

\* C7 witness: Update is about to run in a frame whose last event called Reset
C7_Witness == AtUpdate /\ hist.resetCalls = 1 /\ cloth.isInitialized /\ hist.initCalls = 1

\* C8: cloth.Reset is called once for a Space key event in state Press and for
\* no other event; its origin, like that of Init, is width/2 - clothW/2 and
\* floor(height * 0.2) of the frame's viewport.
C8_ResetOnSpacePress ==
    [][ /\ hist'.resetCalls \in {0, 1}
        /\ hist'.resetCalls = 1 <=> (EventStep /\ Handled = KeyEvent("Space", "Press"))
        /\ hist'.resetCalls = 1 =>
              /\ hist'.resetArgs = ExpectedOrigin(viewport)
              /\ <<cloth'.startX, cloth'.startY>> = ExpectedOrigin(viewport)
        /\ (EventStep /\ hist'.resetCalls = 0) => cloth' = cloth
        /\ hist'.initArgs # <<>> =>
              /\ hist'.initArgs = ExpectedOrigin(viewport')
              /\ <<cloth'.startX, cloth'.startY>> = ExpectedOrigin(viewport')
      ]_vars

\* C8 witness: a pressed Space has reset the cloth to the origin of the wider viewport
C8_Witness ==
    /\ hist.resetCalls = 1
    /\ hist.lastEv = KeyEvent("Space", "Press")
    /\ viewport = <<1222, 600>>
    /\ hist.resetArgs = <<0, 120>>

\* C9: after a reset the cloth is the cloth a fresh init at the same origin
\* builds: same particles, positions, pins and constraints, all active.
C9_ResetIsFreshInit ==
    hist.resetCalls = 1 =>
        cloth = ClothInit(NewCloth(cloth.gridWidth, cloth.gridHeight, cloth.spacing),
                          hist.resetArgs[1], hist.resetArgs[2])

\* C9 witness: a cloth with a torn constraint has been reset
C9_Witness == hist.resetCalls = 1 /\ hist.tornBefore /\ ~TornAny(cloth)

\* C10: a step that is no reset leaves every torn constraint torn.
C10_TearMonotonic ==
    [][ hist'.resetCalls = 0 =>
            \A k \in DOMAIN cloth.constraints :
                ~cloth.constraints[k].active =>
                    (k \in DOMAIN cloth'.constraints /\ ~cloth'.constraints[k].active)
      ]_vars

\* C10 witness: Update has run in Drag mode on a cloth that had a torn constraint
C10_Witness ==
    /\ hist.tornBefore
    /\ hist.resetCalls = 0
    /\ hist.nUpdates >= 1
    /\ Mode(mouse) = "Drag"
    /\ TornAny(cloth)

\* the anchor of store index i: the position init assigned to it
Anchor(c, i) == GridParticle(c, i - 1, c.startX, c.startY)
Displaced(c, i) ==
    c.particles[i].x # Anchor(c, i).x \/ c.particles[i].y # Anchor(c, i).y

\* C11: between two resets, whatever updates and pointer interactions (drag,
\* force-push, tear) are applied, the particles of row 0 are pinned and every
\* pinned particle is at the anchor init assigned to it.
C11_PinnedAtAnchor ==
    \A i \in DOMAIN cloth.particles :
        /\ (i <= cloth.gridWidth) => cloth.particles[i].pinned
        /\ cloth.particles[i].pinned => ~Displaced(cloth, i)

\* C11 witness: Update has just dragged and pushed, with a radius that covers a
\* pinned particle, and a free particle has left its grid position
C11_Witness ==
    /\ hist.nUpdates >= 1
    /\ age >= 2
    /\ Mode(mouse) = "Drag"
    /\ mouse.force > 0
    /\ InRadius(cloth.particles[1], mouse)
    /\ cloth.particles[1].pinned
    /\ \E i \in DOMAIN cloth.particles : ~cloth.particles[i].pinned /\ Displaced(cloth, i)

\* C12 as stated: the close action is performed only by a step that handles a
\* key event for Escape in state Press.
C12_CloseOnlyOnEscapePress ==
    hist.closeCalls = 1 => hist.lastEv = KeyEvent("Escape", "Press")

\* the steps of the loop between taking a frame event and submitting the frame
InFrame == pc = "events"
\* the step touches neither the mouse, the cloth nor the queue of the frame
Untouched == mouse' = mouse /\ cloth' = cloth /\ pending' = pending

\* C13: a frame in progress is followed only by its own steps (an event of its
\* queue, then Update and the submit), no host event is taken inside it, a new
\* frame begins only when the previous one has run Update, and the mouse and the
\* cloth change in the steps of the loop only.
C13_FramesDoNotInterleave ==
    [][ /\ InFrame => (UpdateStep \/ (pc' = "events" /\ (EventStep \/ Untouched)))
        /\ (BeginStep /\ hist.started) => hist.nUpdates = 1
        /\ (mouse' # mouse \/ cloth' # cloth) => (BeginStep \/ (InFrame /\ (EventStep \/ UpdateStep)))
        /\ (pc' = "done" \/ exit' # exit) => ~InFrame
      ]_vars

\* C13 witness: a later frame is in progress, one of its events has been
\* handled and one is left, and the force of an earlier frame's press is there
C13_Witness ==
    /\ InFrame
    /\ pending = 1
    /\ hist.lastEv # NoEvent
    /\ mouse.force > 0

\* C14: at every Update, the control flag implies the left-button flag and the
\* drag flag of the mouse implies the left-button flag.
C14_TearDragNeedLeft ==
    AtUpdate => (/\ mouse.ctrlDown => mouse.isLeftButton
                 /\ mouse.isDragging => mouse.isLeftButton)

\* C14 witness: Update is about to run after a press with Ctrl and a drag of
\* the primary button, with the control flag and the drag flag both set
C14_Witness ==
    /\ AtUpdate
    /\ IsPointerOfType(hist.lastEv, "Drag")
    /\ held = {"Primary"}
    /\ mouse.ctrlDown
    /\ mouse.isDragging
    /\ mouse.isLeftButton

\* C15: at every Update, a false left-button flag implies a force of 0.
C15_IdleHasNoForce == AtUpdate => (~mouse.isLeftButton => mouse.force = 0)

\* C15 witness: Update is about to run in Idle mode after a release that ended
\* a hold during which the force had grown
C15_Witness ==
    /\ AtUpdate
    /\ IsPointerOfType(hist.lastEv, "Release")
    /\ ~mouse.isLeftButton
    /\ mouse.force = 0
    /\ deltaTime > 0

\* the loop has returned
Returned == pc = "done"
EscapePressed == hist.lastEv = KeyEvent("Escape", "Press") /\ hist.closeCalls = 1

\* C16: the loop has returned iff a DestroyEvent was taken, the process then
\* ended through log.Fatal for a non-nil error and with code 0 for a nil one,
\* it is running otherwise; and, the host delivering a DestroyEvent after the
\* close action, a pressed Escape leads to the return of the loop.
C16_ReturnsOnDestroy ==
    /\ [](/\ Returned <=> hist.lastEv.kind = "destroy"
          /\ Returned => ((hist.lastEv.Err = "nil" /\ exit = "exit0")
                          \/ (hist.lastEv.Err # "nil" /\ exit = "fatal"))
          /\ ~Returned => exit = "running")
    /\ (EscapePressed ~> Returned)

\* C16 witness: the loop has returned a non-nil error after the close action
C16_Witness ==
    /\ Returned
    /\ closing
    /\ hist.lastEv = DestroyEvent("err")
    /\ exit = "fatal"

\* C17 as stated: after a Press, Drag or Move handled with a button down, the
\* tracked position is the position of that event.
C17_PositionFollowsPointer ==
    (/\ hist.lastEv.kind = "pointer"
     /\ hist.lastEv.Type \in {"Press", "Drag", "Move"}
     /\ held # {})
    => <<mouse.x, mouse.y>> = hist.lastEv.Position

====
